---- MODULE Spec2Model ----
(***************************************************************************)
(* Model of app1.py: a Streamlit script that loads a pickled XGBoost model *)
(* once per process (st.cache_resource), collects one input record in the  *)
(* sidebar, scores it on a button click and explains the score with SHAP   *)
(* through a two-tier try/except chain.                                    *)
(*                                                                         *)
(* One behaviour is one server process: a sequence of script runs (the     *)
(* first run and the reruns Streamlit starts on every interaction).  A     *)
(* script run is a walk of pc over the statements of the script.  The      *)
(* library calls that the script guards with try/except, and predict_proba,*)
(* may return or raise; the plain display calls (st.error, st.warning,     *)
(* st.metric, st.success, st.markdown, st.caption) return.                 *)
(***************************************************************************)
EXTENDS Integers, Sequences, FiniteSets, TLC

\* ---------------------------------------------------------------- bounds
MaxRuns == 3
MaxFeatures == 2

\* ---------------------------------------------------------------- values
Names == {"AGE", "Sex_Age", "GLUCOSE"}

\* Python None for a value that is otherwise a list, and a list value
NoneV == [tag |-> "None", v |-> <<>>]
Lst(s) == [tag |-> "list", v |-> s]
\* a key or attribute the unpickled object does not have
AbsentV == [tag |-> "Absent", v |-> <<>>]

\* object references: the unpickled classifier, or None
ModelRef == "M"
NoModel == "None"
NoKey == "Absent"

IsUnique(s) == \A a, b \in 1..Len(s) : s[a] = s[b] => a = b

\* the feature lists a bundle can carry: non-empty, unique names
NameLists == {s \in UNION {[1..n -> Names] : n \in 1..MaxFeatures} : IsUnique(s)}

\* What joblib.load('xgb_smpp_model.pkl') finds on disk.
\*   booster: the feature names recorded in the classifier's Booster
Artifacts ==
    {[kind |-> "missing", model |-> NoKey, names |-> AbsentV, booster |-> NoneV],
     [kind |-> "corrupt", model |-> NoKey, names |-> AbsentV, booster |-> NoneV]}
    \cup {[kind |-> "dict", model |-> m, names |-> n, booster |-> b] :
             m \in {NoKey, NoModel, ModelRef},
             n \in {AbsentV, NoneV} \cup {Lst(s) : s \in NameLists},
             b \in {NoneV}}
    \cup {[kind |-> "dict", model |-> ModelRef, names |-> Lst(s), booster |-> Lst(s)] :
             s \in NameLists}
    \cup {[kind |-> "bare", model |-> ModelRef, names |-> AbsentV, booster |-> NoneV]}
    \cup {[kind |-> "bare", model |-> ModelRef, names |-> Lst(s), booster |-> Lst(s)] :
             s \in NameLists}

\* sidebar widget values offered to the user
SexOptions == {1, 2}
AgeValues == {50, 120}
FloatValues == {0, 560}
\* predict_proba()[:, 1][0] in percent
Probabilities == {20, 80}

VARIABLES
    artifact,        \* content of xgb_smpp_model.pkl
    cache,           \* st.cache_resource entry of load_model
    loads,           \* number of joblib.load calls in this process
    runs,            \* number of script runs started
    boosterNames,    \* model.get_booster().feature_names of the cached model
    loaded,          \* the pair and the booster names as load_model left them
    pc,              \* position of the current script run
    model,           \* script global model
    feature_names,   \* script global feature_names
    loadFailed,      \* load_model took its except branch (now or when cached)
    clicked,         \* st.button returns True in this run
    i,               \* index of the sidebar loop
    input_data,      \* dict: sequence of <<key, value>> in insertion order
    input_df,        \* DataFrame of one row: sequence of <<column, value>>
    widgets,         \* sidebar widgets built in this run
    shown,           \* elements displayed in this run
    charts,          \* number of st.pyplot renders in this run
    prob,            \* prediction_prob, -1 before scoring
    primaryRaisedAt, \* step of the outer try that raised, or "none"
    fallbackAttempted, \* the inner try was entered
    fallbackRaisedAt, \* step of the inner try that raised, or "none"
    uncaught         \* operation whose exception left the script, or "none"

procVars == <<artifact, cache, loads, boosterNames, loaded>>
loadVars == <<model, feature_names, loadFailed>>
inputVars == <<i, input_data, input_df, widgets>>
explainVars == <<primaryRaisedAt, fallbackAttempted, fallbackRaisedAt>>
quietVars == <<explainVars, uncaught>>
vars == <<artifact, cache, loads, runs, boosterNames, loaded, pc, model,
          feature_names, loadFailed, clicked, i, input_data, input_df, widgets,
          shown, charts, prob, primaryRaisedAt, fallbackAttempted,
          fallbackRaisedAt, uncaught>>

EmptyCache == [set |-> FALSE, model |-> NoModel, names |-> NoneV, failed |-> FALSE]

Init ==
    /\ artifact \in Artifacts
    /\ cache = EmptyCache
    /\ loads = 0
    /\ runs = 0
    /\ boosterNames = artifact.booster
    /\ loaded = [model |-> NoModel, names |-> NoneV, booster |-> NoneV]
    /\ pc = "idle"
    /\ model = NoModel
    /\ feature_names = NoneV
    /\ loadFailed = FALSE
    /\ clicked = FALSE
    /\ i = 1
    /\ input_data = <<>>
    /\ input_df = <<>>
    /\ widgets = <<>>
    /\ shown = {}
    /\ charts = 0
    /\ prob = -1
    /\ primaryRaisedAt = "none"
    /\ fallbackAttempted = FALSE
    /\ fallbackRaisedAt = "none"
    /\ uncaught = "none"

\* ------------------------------------------------------------ script start
\* A run starts when the page is opened or a widget is used.  The button
\* returns True only in the run its click started, so it must have been
\* offered by the previous run.
StartRun ==
    /\ pc \in {"idle", "done", "stopped", "crashed"}
    /\ runs < MaxRuns
    /\ runs' = runs + 1
    /\ clicked' \in (IF "button" \in shown THEN BOOLEAN ELSE {FALSE})
    /\ pc' = "load"
    /\ model' = NoModel
    /\ feature_names' = NoneV
    /\ loadFailed' = FALSE
    /\ i' = 1
    /\ input_data' = <<>>
    /\ input_df' = <<>>
    /\ widgets' = <<>>
    /\ shown' = {}
    /\ charts' = 0
    /\ prob' = -1
    /\ primaryRaisedAt' = "none"
    /\ fallbackAttempted' = FALSE
    /\ fallbackRaisedAt' = "none"
    /\ uncaught' = "none"
    /\ UNCHANGED procVars

\* -------------------------------------------------------------- load_model
\* The body of load_model: the outcome of try ... except Exception.
LoadRaises(a) ==
    \/ a.kind \in {"missing", "corrupt"}
    \/ a.kind = "dict" /\ (a.model = NoKey \/ a.names = AbsentV)
    \/ a.kind = "bare" /\ a.names = AbsentV

load_model(a) ==
    IF LoadRaises(a)
    THEN [model |-> NoModel, names |-> NoneV, failed |-> TRUE]
    ELSE [model |-> a.model, names |-> a.names, failed |-> FALSE]

CacheHitNever(c) == FALSE

\* st.cache_resource: the body runs only when no entry exists
CacheHit(c) == c.set

LoadModel ==
    /\ pc = "load"
    /\ IF CacheHit(cache)
       THEN /\ model' = cache.model
            /\ feature_names' = cache.names
            /\ loadFailed' = cache.failed
            /\ shown' = IF cache.failed THEN shown \cup {"load_error"} ELSE shown
            /\ UNCHANGED <<cache, loads, loaded>>
       ELSE LET r == load_model(artifact) IN
            /\ loads' = loads + 1
            /\ cache' = [set |-> TRUE, model |-> r.model, names |-> r.names,
                         failed |-> r.failed]
            /\ loaded' = [model |-> r.model, names |-> r.names,
                          booster |-> boosterNames]
            /\ model' = r.model
            /\ feature_names' = r.names
            /\ loadFailed' = r.failed
            /\ shown' = IF r.failed THEN shown \cup {"load_error"} ELSE shown
    /\ pc' = "gate"
    /\ UNCHANGED <<artifact, runs, boosterNames, clicked, inputVars, charts,
                   prob, quietVars>>

ShouldStopNever(m) == FALSE

\* if model is None
ShouldStop(m) == m = NoModel

Gate ==
    /\ pc = "gate"
    /\ IF ShouldStop(model)
       THEN /\ shown' = shown \cup {"no_model_error"}
            /\ pc' = "stopped"
       ELSE /\ shown' = shown \cup {"sidebar_header"}
            /\ pc' = "collect"
    /\ UNCHANGED <<procVars, runs, loadVars, clicked, inputVars, charts, prob,
                   quietVars>>

\* ------------------------------------------------------- sidebar inputs
\* 'SEX' in col.upper() and 'AGE' in col.upper()
HasSEX(col) == col \in {"Sex_Age"}
HasAGE(col) == col \in {"AGE", "Sex_Age"}

\* the if / elif / else of the sidebar loop
WidgetKind(col) ==
    IF HasSEX(col) THEN "selectbox"
    ELSE IF HasAGE(col) THEN "age_input"
    ELSE "number_input"

\* label = col + unit suffix
Label(col) ==
    IF HasSEX(col) THEN <<col, "(sex)">>
    ELSE IF HasAGE(col) THEN <<col, "(years)">>
    ELSE <<col, "(mmol/L)">>

WidgetValues(col) ==
    IF WidgetKind(col) = "selectbox" THEN SexOptions
    ELSE IF WidgetKind(col) = "age_input" THEN AgeValues
    ELSE FloatValues

\* input_data[k] = v on a Python dict kept as insertion-ordered pairs
DictSet(d, k, v) ==
    IF \E j \in 1..Len(d) : d[j][1] = k
    THEN [j \in 1..Len(d) |-> IF d[j][1] = k THEN <<k, v>> ELSE d[j]]
    ELSE Append(d, <<k, v>>)

Collect ==
    /\ pc = "collect"
    /\ IF feature_names.tag # "list"
       THEN \* for col in None: TypeError, outside any try
            /\ pc' = "crashed"
            /\ uncaught' = "sidebar_loop"
            /\ UNCHANGED <<shown, inputVars>>
       ELSE IF i <= Len(feature_names.v)
       THEN LET col == feature_names.v[i] IN
            \E v \in WidgetValues(col) :
                /\ widgets' = Append(widgets, <<Label(col), WidgetKind(col)>>)
                /\ input_data' = DictSet(input_data, col, v)
                /\ i' = i + 1
                /\ UNCHANGED <<pc, shown, input_df, uncaught>>
       ELSE /\ pc' = "frame"
            /\ UNCHANGED <<shown, inputVars, uncaught>>
    /\ UNCHANGED <<procVars, runs, loadVars, clicked, charts, prob, explainVars>>

\* pd.DataFrame([input_data]): one row, columns in the dict's key order
DataFrame(d) == d

Columns(df) == [j \in 1..Len(df) |-> df[j][1]]

HasColumns(df, cols) ==
    \A j \in 1..Len(cols) : \E k \in 1..Len(df) : df[k][1] = cols[j]

ColumnOf(df, name) == df[CHOOSE k \in 1..Len(df) : df[k][1] = name]

ProjectButLast(df, cols) ==
    [j \in 1..(IF Len(cols) = 0 THEN 0 ELSE Len(cols) - 1) |-> ColumnOf(df, cols[j])]

\* df[feature_names]: the named columns in the order of the list
Project(df, cols) == [j \in 1..Len(cols) |-> ColumnOf(df, cols[j])]

BuildFrame ==
    /\ pc = "frame"
    /\ IF HasColumns(DataFrame(input_data), feature_names.v)
       THEN /\ input_df' = Project(DataFrame(input_data), feature_names.v)
            /\ shown' = shown \cup {"title"}
            /\ pc' = "button"
            /\ UNCHANGED uncaught
       ELSE \* KeyError, outside any try
            /\ pc' = "crashed"
            /\ uncaught' = "input_df"
            /\ UNCHANGED <<shown, input_df>>
    /\ UNCHANGED <<procVars, runs, loadVars, clicked, i, input_data, widgets,
                   charts, prob, explainVars>>

\* ------------------------------------------------------------ predict
Button ==
    /\ pc = "button"
    /\ IF clicked
       THEN /\ shown' = shown \cup {"button"}
            /\ pc' = "score"
       ELSE /\ shown' = shown \cup {"button", "hint"}
            /\ pc' = "footer"
    /\ UNCHANGED <<procVars, runs, loadVars, clicked, inputVars, charts, prob,
                   quietVars>>

\* model.predict_proba(input_df)[:, 1][0], outside any try
Score ==
    /\ pc = "score"
    /\ \E ok \in BOOLEAN :
         IF ok
         THEN /\ prob' \in Probabilities
              /\ pc' = "display"
              /\ UNCHANGED uncaught
         ELSE /\ pc' = "crashed"
              /\ uncaught' = "predict_proba"
              /\ UNCHANGED prob
    /\ UNCHANGED <<procVars, runs, loadVars, clicked, inputVars, charts,
                   shown, explainVars>>

HighRisk(p) == p > 50

Display ==
    /\ pc = "display"
    /\ shown' = shown \cup {"metric",
                            IF HighRisk(prob) THEN "banner_high" ELSE "banner_low"}
    /\ pc' = "p_explain"
    /\ UNCHANGED <<procVars, runs, loadVars, clicked, inputVars, charts, prob,
                   quietVars>>

\* ------------------------------------------------- SHAP: primary tier
\* The statements of the outer try block, in order.
PrimarySteps == <<"p_explain", "p_plot", "p_render", "p_clf", "p_legend">>

StepAfter(steps, step) ==
    LET k == CHOOSE j \in 1..Len(steps) : steps[j] = step
    IN IF k < Len(steps) THEN steps[k + 1] ELSE "footer"

PrimaryNextSwallow(step, ok) ==
    IF ok THEN StepAfter(PrimarySteps, step) ELSE "footer"

\* try: ... except Exception as e: the handler of the outer try
PrimaryNext(step, ok) ==
    IF ok THEN StepAfter(PrimarySteps, step) ELSE "warn"

PrimaryFrame == <<procVars, runs, loadVars, clicked, inputVars, prob,
                  fallbackAttempted, fallbackRaisedAt, uncaught>>

\* explainer = shap.Explainer(model); shap_values = explainer(input_df)
PrimaryExplain ==
    /\ pc = "p_explain"
    /\ \E ok \in BOOLEAN :
         /\ pc' = PrimaryNext("p_explain", ok)
         /\ primaryRaisedAt' = IF ok THEN primaryRaisedAt ELSE "p_explain"
    /\ shown' = shown \cup {"subheader"}
    /\ UNCHANGED <<PrimaryFrame, charts>>

\* plt.subplots; shap.plots.waterfall; plt.tight_layout
PrimaryPlot ==
    /\ pc = "p_plot"
    /\ \E ok \in BOOLEAN :
         /\ pc' = PrimaryNext("p_plot", ok)
         /\ primaryRaisedAt' = IF ok THEN primaryRaisedAt ELSE "p_plot"
    /\ UNCHANGED <<PrimaryFrame, charts, shown>>

\* st.pyplot(fig)
PrimaryRender ==
    /\ pc = "p_render"
    /\ \E ok \in BOOLEAN :
         /\ pc' = PrimaryNext("p_render", ok)
         /\ primaryRaisedAt' = IF ok THEN primaryRaisedAt ELSE "p_render"
         /\ charts' = IF ok THEN charts + 1 ELSE charts
         /\ shown' = IF ok THEN shown \cup {"waterfall"} ELSE shown
    /\ UNCHANGED PrimaryFrame

\* plt.clf()
PrimaryClf ==
    /\ pc = "p_clf"
    /\ \E ok \in BOOLEAN :
         /\ pc' = PrimaryNext("p_clf", ok)
         /\ primaryRaisedAt' = IF ok THEN primaryRaisedAt ELSE "p_clf"
    /\ UNCHANGED <<PrimaryFrame, charts, shown>>

\* st.info(legend), still inside the outer try
PrimaryLegend ==
    /\ pc = "p_legend"
    /\ \E ok \in BOOLEAN :
         /\ pc' = PrimaryNext("p_legend", ok)
         /\ primaryRaisedAt' = IF ok THEN primaryRaisedAt ELSE "p_legend"
         /\ shown' = IF ok THEN shown \cup {"legend"} ELSE shown
    /\ UNCHANGED <<PrimaryFrame, charts>>

\* ------------------------------------------------ SHAP: fallback tier
\* st.warning(...), then the inner try is entered
Warn ==
    /\ pc = "warn"
    /\ shown' = shown \cup {"warning"}
    /\ fallbackAttempted' = TRUE
    /\ pc' = "f_booster"
    /\ UNCHANGED <<procVars, runs, loadVars, clicked, inputVars, charts, prob,
                   primaryRaisedAt, fallbackRaisedAt, uncaught>>

FallbackSteps == <<"f_booster", "f_names", "f_explain", "f_plot", "f_render",
                   "f_clf">>

\* try: ... except Exception as fallback_e: the handler of the inner try
FallbackNext(step, ok) ==
    IF ok THEN StepAfter(FallbackSteps, step) ELSE "f_error"

FallbackFrame == <<artifact, cache, loads, loaded, runs, loadVars, clicked,
                   inputVars, prob, primaryRaisedAt, fallbackAttempted,
                   uncaught>>

\* booster = model.get_booster(): the model's own Booster, not a copy
FallbackBooster ==
    /\ pc = "f_booster"
    /\ \E ok \in BOOLEAN :
         /\ pc' = FallbackNext("f_booster", ok)
         /\ fallbackRaisedAt' = IF ok THEN fallbackRaisedAt ELSE "f_booster"
    /\ UNCHANGED <<FallbackFrame, boosterNames, charts, shown>>

\* booster.feature_names = feature_names (the setter validates and may raise)
FallbackNames ==
    /\ pc = "f_names"
    /\ \E ok \in BOOLEAN :
         /\ pc' = FallbackNext("f_names", ok)
         /\ fallbackRaisedAt' = IF ok THEN fallbackRaisedAt ELSE "f_names"
         /\ boosterNames' = IF ok THEN feature_names ELSE boosterNames
    /\ UNCHANGED <<FallbackFrame, charts, shown>>

\* explainer = shap.TreeExplainer(booster); explainer.shap_values(input_df)
FallbackExplain ==
    /\ pc = "f_explain"
    /\ \E ok \in BOOLEAN :
         /\ pc' = FallbackNext("f_explain", ok)
         /\ fallbackRaisedAt' = IF ok THEN fallbackRaisedAt ELSE "f_explain"
    /\ UNCHANGED <<FallbackFrame, boosterNames, charts, shown>>

\* plt.subplots; shap.summary_plot(plot_type="bar"); plt.tight_layout
FallbackPlot ==
    /\ pc = "f_plot"
    /\ \E ok \in BOOLEAN :
         /\ pc' = FallbackNext("f_plot", ok)
         /\ fallbackRaisedAt' = IF ok THEN fallbackRaisedAt ELSE "f_plot"
    /\ UNCHANGED <<FallbackFrame, boosterNames, charts, shown>>

\* st.pyplot(fig)
FallbackRender ==
    /\ pc = "f_render"
    /\ \E ok \in BOOLEAN :
         /\ pc' = FallbackNext("f_render", ok)
         /\ fallbackRaisedAt' = IF ok THEN fallbackRaisedAt ELSE "f_render"
         /\ charts' = IF ok THEN charts + 1 ELSE charts
         /\ shown' = IF ok THEN shown \cup {"bar_chart"} ELSE shown
    /\ UNCHANGED <<FallbackFrame, boosterNames>>

\* plt.clf(); no legend follows in this tier
FallbackClf ==
    /\ pc = "f_clf"
    /\ \E ok \in BOOLEAN :
         /\ pc' = FallbackNext("f_clf", ok)
         /\ fallbackRaisedAt' = IF ok THEN fallbackRaisedAt ELSE "f_clf"
    /\ UNCHANGED <<FallbackFrame, boosterNames, charts, shown>>

\* st.error("SHAP explanation failed: ...")
FallbackError ==
    /\ pc = "f_error"
    /\ shown' = shown \cup {"attribution_failed"}
    /\ pc' = "footer"
    /\ UNCHANGED <<procVars, runs, loadVars, clicked, inputVars, charts, prob,
                   quietVars>>

\* st.markdown("---"); st.caption(...)
Footer ==
    /\ pc = "footer"
    /\ shown' = shown \cup {"caption"}
    /\ pc' = "done"
    /\ UNCHANGED <<procVars, runs, loadVars, clicked, inputVars, charts, prob,
                   quietVars>>

\* =================================================================== claims
RunEnded == pc \in {"footer", "done"}

\* C1: load_model never returns a pair in which exactly one of model and
\* feature list is None: after it has returned, the model is None if and
\* only if the feature list is None.
C1_NeverPartialPair ==
    cache.set => ((cache.model = NoModel) <=> (cache.names = NoneV))

\* C2: whenever load_model ended in failure, the run halts at the load gate:
\* no sidebar header or widget is built, no input record or frame is
\* assembled, the button is not offered, nothing is scored and no
\* attribution tier runs.
C2_LoadFailureHalts ==
    loadFailed =>
        /\ pc \in {"gate", "stopped"}
        /\ widgets = <<>> /\ input_data = <<>> /\ input_df = <<>>
        /\ shown \subseteq {"load_error", "no_model_error"}
        /\ prob = -1 /\ charts = 0
        /\ primaryRaisedAt = "none" /\ ~fallbackAttempted
        /\ (pc = "stopped" => "no_model_error" \in shown)

C2_Witness == loadFailed /\ pc = "stopped" /\ runs >= 2

\* C3: when the primary tier raised and the fallback tier raised too, the
\* metric and the risk banner of that action are displayed, the run goes on
\* to its end, and the attribution panel shows the failure message and no
\* chart.
C3_DoubleFailureShowsMessageNoChart ==
    (primaryRaisedAt # "none" /\ fallbackRaisedAt # "none") =>
        /\ "metric" \in shown
        /\ shown \cap {"banner_high", "banner_low"} # {}
        /\ pc \in {"f_error", "footer", "done"}
        /\ (RunEnded => "attribution_failed" \in shown)
        /\ charts = 0

C5_CachedPairNeverMutated ==
    cache.set =>
        /\ cache.model = loaded.model
        /\ cache.names = loaded.names
        /\ boosterNames = loaded.booster

\* C6: the artifact is read at most once per process, and every run gets
\* its (model, feature list) pair from the cache entry of that one load.
C6_LoadedAtMostOnce ==
    /\ loads <= 1
    /\ pc \notin {"idle", "load"} =>
          /\ loads = 1 /\ cache.set
          /\ model = cache.model /\ feature_names = cache.names
          /\ cache.model = loaded.model /\ cache.names = loaded.names

C6_Witness == runs >= 2 /\ pc = "gate" /\ loads = 1 /\ model = ModelRef

\* C7: no failure of loading, of predict_proba, of the primary tier or of
\* the fallback tier leaves the script as an uncaught exception.
C7_NoUncaughtOperationFailure ==
    uncaught \notin {"load_model", "predict_proba", "primary", "fallback"}

\* C8: when a predict action has rendered an attribution chart, from either
\* tier, it has displayed the legend as well by its end.
C8_ChartComesWithLegend ==
    (RunEnded /\ charts > 0) => "legend" \in shown

\* C9: st.pyplot renders at most one chart per predict action.
C9_AtMostOneChart == charts <= 1

\* C10: in a run that reaches scoring, input_df has exactly the columns of
\* the loaded feature list, in its order, holding the values entered.
C10_FrameMatchesSchema ==
    ("button" \in shown /\ clicked) =>
        /\ Columns(input_df) = feature_names.v
        /\ \A j \in 1..Len(input_df) :
              \E k \in 1..Len(input_data) : input_data[k] = input_df[j]

C10_Witness ==
    /\ pc = "score"
    /\ Len(feature_names.v) >= 2
    /\ feature_names.v[1] = "GLUCOSE"
    /\ input_df[1][2] = 560

Next ==
    \/ StartRun \/ LoadModel \/ Gate \/ Collect \/ BuildFrame \/ Button
    \/ Score \/ Display
    \/ PrimaryExplain \/ PrimaryPlot \/ PrimaryRender \/ PrimaryClf
    \/ PrimaryLegend
    \/ Warn \/ FallbackBooster \/ FallbackNames \/ FallbackExplain
    \/ FallbackPlot \/ FallbackRender \/ FallbackClf \/ FallbackError
    \/ Footer

Spec == Init /\ [][Next]_vars
====
